---- MODULE Spec2Model ----
(***************************************************************************)
(* Beamer: windshield sun-glare scoring along a driving route.             *)
(*                                                                         *)
(* Numbers.  Angles are whole degrees.  A value of the unit interval is    *)
(* kept exactly, as an integer numerator over a scale that the operator    *)
(* producing it names: an elevation term is a numerator over ElevScale, a  *)
(* heading term a numerator over theta_H^2, a score a numerator over the   *)
(* product of the two.  A datetime is a record [wall, tzinfo]: its         *)
(* wall-clock reading, and its tzinfo as the one-element sequence <<UTC    *)
(* offset>>, or None (the empty sequence) when it has none.                *)
(***************************************************************************)
EXTENDS Integers, Sequences, FiniteSets, TLC

VARIABLES
    ephem,          \* the sun, as the solar position library reports it
    g_call,         \* SpecGlare: the call being made (function and arguments)
    g_ret,          \* SpecGlare: what the call returned or raised
    sim_call,       \* SpecSim: arguments of run_glare_simulation_with_durations
    sim_ret,        \* SpecSim: its result
    request,        \* SpecAnalyze: the POST /api/analyze-glare request in flight
    response,       \* SpecAnalyze: the response sent for it
    request_counts, \* server.request_counts: client -> window -> count
    clock,          \* int(time.time()) as the server reads it
    handled         \* number of requests the endpoint has answered

vars == <<ephem, g_call, g_ret, sim_call, sim_ret, request, response,
          request_counts, clock, handled>>

None == <<>>
Pending == "pending"
Idle == [exc |-> "idle", fn |-> "idle", status |-> 0]

Max(a, b) == IF a >= b THEN a ELSE b
Min(a, b) == IF a <= b THEN a ELSE b
Abs(x) == IF x >= 0 THEN x ELSE 0 - x

(***************************************************************************)
(* glare_index.py                                                          *)
(***************************************************************************)
THETA_H == 25
THETA_E == 15
TAIL_E == 10

\* Scale of an elevation term: the least number that makes el/THETA_E,
\* el/PRACTICAL_THETA_E and the 0.35 tail whole for whole degrees.
ElevScale == 2 * 2 * 2 * 3 * 5 * 5

_clip(x, a, b) == Max(a, Min(b, x))

\* Mutant of _angdiff: the fold to [0,180] is left out.
_angdiff_unfolded(a, b) == Abs((a - b) % 360)

_angdiff(a, b) ==
    LET d == Abs((a - b) % 360)
    IN  IF d <= 180 THEN d ELSE 360 - d

\* The solar position library (pysolar), seen from the program: a reading
\* that depends on the UTC instant only.  ephem fixes the reading at instant
\* 0 and its drift per tick.
get_azimuth(eph, t_utc) == eph.az0 + eph.daz * t_utc
get_altitude(eph, t_utc) == eph.el0 + eph.del * t_utc

\* Mutant of _to_utc: a datetime without tzinfo is taken to be UTC.
_to_utc_assume_utc(t) ==
    [exc |-> "none", utc |-> t.wall - (IF t.tzinfo = None THEN 0 ELSE t.tzinfo[1])]

_to_utc(t) ==
    IF t.tzinfo = None
    THEN [exc |-> "ValueError"]
    ELSE [exc |-> "none", utc |-> t.wall - t.tzinfo[1]]

_solar(eph, when) ==
    LET t_utc == _to_utc(when)
    IN  IF t_utc.exc # "none"
        THEN [exc |-> t_utc.exc, lookups |-> 0]
        ELSE [exc |-> "none", lookups |-> 2,
              az |-> get_azimuth(eph, t_utc.utc) % 360,
              el |-> get_altitude(eph, t_utc.utc)]

\* Mutant of _elev_term: the tail zone includes THETA_E itself.
_elev_term_closed_tail(el) ==
    IF el <= 0 THEN 0
    ELSE LET primary == _clip(ElevScale - (el * ElevScale) \div THETA_E, 0, ElevScale)
             tail == IF THETA_E <= el /\ el < THETA_E + TAIL_E
                     THEN ((TAIL_E - (el - THETA_E)) * 35 * ElevScale) \div (TAIL_E * 100)
                     ELSE 0
         IN  _clip(primary + tail, 0, ElevScale)

\* Mutant of _elev_term: the horizon test is strict, so an altitude of
\* exactly 0 takes the primary ramp.
_elev_term_strict(el) ==
    IF el < 0 THEN 0
    ELSE _clip(ElevScale - (el * ElevScale) \div THETA_E, 0, ElevScale)

_elev_term(el) ==
    IF el <= 0 THEN 0
    ELSE LET primary == _clip(ElevScale - (el * ElevScale) \div THETA_E, 0, ElevScale)
             tail == IF THETA_E < el /\ el < THETA_E + TAIL_E
                     THEN ((TAIL_E - (el - THETA_E)) * 35 * ElevScale) \div (TAIL_E * 100)
                     ELSE 0
         IN  _clip(primary + tail, 0, ElevScale)

_heading_term(delta) ==
    IF delta >= THETA_H THEN 0
    ELSE _clip(THETA_H * THETA_H - delta * delta, 0, THETA_H * THETA_H)

glare_score(eph, when, heading_deg) ==
    LET s == _solar(eph, when)
    IN  IF s.exc # "none"
        THEN [exc |-> s.exc, lookups |-> s.lookups]
        ELSE LET elev == _elev_term(s.el)
                 delta == _angdiff(s.az, heading_deg)
                 head == _heading_term(delta)
                 scale == ElevScale * THETA_H * THETA_H
             IN  [exc |-> "none", lookups |-> s.lookups,
                  score |-> _clip(elev * head, 0, scale), scale |-> scale,
                  azimuth_deg |-> s.az, elevation_deg |-> s.el,
                  delta_heading_deg |-> delta]

(***************************************************************************)
(* server.py: the practical preset                                         *)
(***************************************************************************)
PRACTICAL_THETA_H == 60
PRACTICAL_THETA_E == 20

practical_heading_term(delta) ==
    IF delta >= PRACTICAL_THETA_H THEN 0
    ELSE _clip(PRACTICAL_THETA_H * PRACTICAL_THETA_H - delta * delta,
               0, PRACTICAL_THETA_H * PRACTICAL_THETA_H)

\* Mutant of practical_elev_term: the tail is left out.
practical_elev_term_no_tail(el) ==
    IF el <= 0 THEN 0
    ELSE _clip(ElevScale - (el * ElevScale) \div PRACTICAL_THETA_E, 0, ElevScale)

\* Mutant of practical_elev_term: the tail grows with altitude instead of
\* fading.
practical_elev_term_rising(el) ==
    IF el <= 0 THEN 0
    ELSE LET primary == _clip(ElevScale - (el * ElevScale) \div PRACTICAL_THETA_E,
                              0, ElevScale)
             tail == IF PRACTICAL_THETA_E < el /\ el < PRACTICAL_THETA_E + 10
                     THEN ((el - PRACTICAL_THETA_E) * 35 * ElevScale) \div (10 * 100)
                     ELSE 0
         IN  _clip(primary + tail, 0, ElevScale)

practical_elev_term(el) ==
    IF el <= 0 THEN 0
    ELSE LET primary == _clip(ElevScale - (el * ElevScale) \div PRACTICAL_THETA_E,
                              0, ElevScale)
             tail == IF PRACTICAL_THETA_E < el /\ el < PRACTICAL_THETA_E + 10
                     THEN ((10 - (el - PRACTICAL_THETA_E)) * 35 * ElevScale) \div (10 * 100)
                     ELSE 0
         IN  _clip(primary + tail, 0, ElevScale)

practical_glare_score(eph, when, heading_deg) ==
    LET s == _solar(eph, when)
    IN  IF s.exc # "none"
        THEN [exc |-> s.exc, lookups |-> s.lookups]
        ELSE LET elev == practical_elev_term(s.el)
                 delta == _angdiff(s.az, heading_deg)
                 head == practical_heading_term(delta)
                 scale == ElevScale * PRACTICAL_THETA_H * PRACTICAL_THETA_H
             IN  [exc |-> "none", lookups |-> s.lookups,
                  score |-> _clip(elev * head, 0, scale), scale |-> scale,
                  azimuth_deg |-> s.az, elevation_deg |-> s.el,
                  delta_heading_deg |-> delta,
                  elevation_term |-> elev, heading_term |-> head]

\* A scorer, by name (the `scorer` argument of the simulation).
Scorers == {"glare_score", "practical_glare_score"}
ApplyScorer(fn, eph, when, heading_deg) ==
    IF fn = "glare_score" THEN glare_score(eph, when, heading_deg)
    ELSE practical_glare_score(eph, when, heading_deg)

(***************************************************************************)
(* SpecGlare: one call of a scoring function on drawn arguments.           *)
(***************************************************************************)
MinAzimuth == 30        \* raw azimuths run from -MinAzimuth ...
MaxAzimuth == 390       \* ... to MaxAzimuth, before normalisation
MaxAltitude == 33       \* altitudes run from -3 to MaxAltitude, and the extremes

Azimuths == (0 - MinAzimuth)..MaxAzimuth
Altitudes == (0 - 3)..MaxAltitude \cup {0 - 90, 45, 90}
Headings == {0 - 90, 0, 270, 725}
AnglesA == {a \in (0 - 400)..800 : a % 5 = 0 \/ a % 7 = 0}
AnglesB == {0 - 360, 0 - 181, 0 - 180, 0 - 1, 0, 1, 90, 179, 180, 181, 359, 360, 361, 540, 720}

UTC == <<0>>
StillSun(az, el) == [az0 |-> az, el0 |-> el, daz |-> 0, del |-> 0]

RestInit ==
    /\ sim_call = Idle /\ sim_ret = Idle
    /\ request = Idle /\ response = Idle
    /\ request_counts = <<>> /\ clock = 0 /\ handled = 0

InitGlare ==
    /\ \/ \E az \in Azimuths, el \in Altitudes, fn \in Scorers, h \in Headings :
            \E tz \in IF az % 45 = 0 THEN {UTC, None} ELSE {UTC} :
                /\ ephem = StillSun(az, el)
                /\ g_call = [fn |-> fn, when |-> [wall |-> 0, tzinfo |-> tz],
                             heading_deg |-> h]
       \/ \E a \in AnglesA, b \in AnglesB :
            /\ ephem = StillSun(0, 0)
            /\ g_call = [fn |-> "_angdiff", a |-> a, b |-> b]
    /\ g_ret = [exc |-> Pending]
    /\ RestInit

CallGlareScore ==
    /\ g_ret.exc = Pending /\ g_call.fn = "glare_score"
    /\ g_ret' = glare_score(ephem, g_call.when, g_call.heading_deg)
    /\ UNCHANGED <<ephem, g_call, sim_call, sim_ret, request, response,
                   request_counts, clock, handled>>

CallPracticalGlareScore ==
    /\ g_ret.exc = Pending /\ g_call.fn = "practical_glare_score"
    /\ g_ret' = practical_glare_score(ephem, g_call.when, g_call.heading_deg)
    /\ UNCHANGED <<ephem, g_call, sim_call, sim_ret, request, response,
                   request_counts, clock, handled>>

\* _angdiff called both ways round on the same pair.
CallAngdiff ==
    /\ g_ret.exc = Pending /\ g_call.fn = "_angdiff"
    /\ g_ret' = [exc |-> "none", ab |-> _angdiff(g_call.a, g_call.b),
                 ba |-> _angdiff(g_call.b, g_call.a)]
    /\ UNCHANGED <<ephem, g_call, sim_call, sim_ret, request, response,
                   request_counts, clock, handled>>

NextGlare == CallGlareScore \/ CallPracticalGlareScore \/ CallAngdiff

SpecGlare == InitGlare /\ [][NextGlare]_vars

ScorerReturned == g_call.fn \in Scorers /\ g_ret.exc = "none"

\* C1: the score of glare_score and of practical_glare_score lies in [0,1]
\* (0 <= numerator <= scale), and is exactly 0 whenever the solar altitude
\* is <= 0, whatever the heading.
C1_ScoreInUnitInterval ==
    ScorerReturned =>
        /\ 0 <= g_ret.score /\ g_ret.score <= g_ret.scale
        /\ (g_ret.elevation_deg <= 0 => g_ret.score = 0)

\* The sun exactly on the horizon, dead ahead: the score is 0.
C1_Witness ==
    /\ ScorerReturned /\ g_call.fn = "glare_score"
    /\ g_ret.elevation_deg = 0 /\ g_ret.delta_heading_deg = 0 /\ g_ret.score = 0

ScoreAt(fn, az, el, h) ==
    ApplyScorer(fn, StillSun(az, el), [wall |-> 0, tzinfo |-> UTC], h).score

ThetaE(fn) == IF fn = "glare_score" THEN THETA_E ELSE PRACTICAL_THETA_E

\* C3: for both presets, at a fixed altitude the score does not increase when
\* the angular difference between heading and azimuth grows, and at a fixed
\* angular difference it does not increase with altitude above theta_E.
\* Stated stepwise: against the neighbouring azimuths that are no nearer the
\* heading, and against the next altitude and the extreme ones.
C3_ScoreMonotone ==
    ScorerReturned =>
        LET fn == g_call.fn
            az == g_ret.azimuth_deg
            el == g_ret.elevation_deg
            h  == g_call.heading_deg
        IN  /\ \A az2 \in {az - 1, az + 1, az + 180} :
                  _angdiff(az2, h) >= g_ret.delta_heading_deg
                      => ScoreAt(fn, az2, el, h) <= g_ret.score
            /\ \A el2 \in {el + 1, el + 10, 90} :
                  (el > ThetaE(fn) /\ el2 >= el)
                      => ScoreAt(fn, az, el2, h) <= g_ret.score

\* In the tail zone of the practical preset, off axis, with glare left.
C3_Witness ==
    /\ ScorerReturned /\ g_call.fn = "practical_glare_score"
    /\ g_ret.elevation_deg = PRACTICAL_THETA_E + 1
    /\ g_ret.delta_heading_deg = 30 /\ g_ret.score > 0

(***************************************************************************)
(* route_visualization.py                                                  *)
(*                                                                         *)
(* Route points lie on the equator or follow a meridian, where the         *)
(* spherical bearing formula gives a cardinal direction exactly.  A        *)
(* position is a pair of fractions [n, d]; an instant of the simulation is *)
(* a datetime whose wall reading counts whole seconds.  A segment duration *)
(* `segment_minutes[i]` is given in parts of a minute (MinuteParts to the  *)
(* minute), so that durations of half a second are inputs too.             *)
(***************************************************************************)
Pt(lat, lon) == [lat |-> lat, lon |-> lon]

\* bearing_deg on the legs the model uses: along a meridian (equal
\* longitudes; atan2(0, x) is 0 for x >= 0 and pi for x < 0) and along the
\* equator (atan2(y, 0) is +-pi/2).  Any other leg is outside the model.
bearing_deg(lat1, lon1, lat2, lon2) ==
    IF lon1 = lon2 THEN (IF lat2 < lat1 THEN 180 ELSE 0)
    ELSE IF lat1 = 0 /\ lat2 = 0 THEN (IF lon2 > lon1 THEN 90 ELSE 270)
    ELSE 0 - 1

\* Python's round(n / d) for d > 0: to the nearest integer, ties to even.
PyRound(n, d) ==
    LET q == n \div d
        r == n % d
    IN  IF 2 * r < d THEN q
        ELSE IF 2 * r > d THEN q + 1
        ELSE IF q % 2 = 0 THEN q ELSE q + 1

\* sum(q[lo .. hi]), halving the range.
RECURSIVE SumRange(_, _, _)
SumRange(q, lo, hi) ==
    IF lo > hi THEN 0
    ELSE IF lo = hi THEN q[lo]
    ELSE LET mid == (lo + hi) \div 2
         IN  SumRange(q, lo, mid) + SumRange(q, mid + 1, hi)

SumSeq(q) == SumRange(q, 1, Len(q))

MinuteParts == 2 * 60

\* timedelta(seconds = n) added to a datetime, n a whole number of ticks.
PlusTicks(t, n) == [wall |-> t.wall + n, tzinfo |-> t.tzinfo]

Frac(n, d) == [n |-> n, d |-> d]

\* Mutant of SimArgumentError: the length test is off by one.
SimArgumentError_off_by_one(route_points, segment_minutes) ==
    IF Len(route_points) < 2 THEN "ValueError"
    ELSE IF Len(segment_minutes) # Len(route_points) THEN "ValueError"
    ELSE "none"

\* The two argument checks at the head of run_glare_simulation_with_durations.
SimArgumentError(route_points, segment_minutes) ==
    IF Len(route_points) < 2 THEN "ValueError"
    ELSE IF Len(segment_minutes) # Len(route_points) - 1 THEN "ValueError"
    ELSE "none"

\* Mutant of seg_secs_total: a segment may take no time at all.
seg_secs_total_no_floor(minutes) == PyRound(minutes * 60, MinuteParts)

seg_secs_total(minutes) == Max(1, PyRound(minutes * 60, MinuteParts))

\* Mutant of SimSteps: one sample too many per segment (a closed interval).
SimSteps_closed(secs, step_seconds) == Max(1, secs \div Max(1, step_seconds)) + 1

\* steps = max(1, seg_secs_total // max(1, int(step_seconds)))
SimSteps(secs, step_seconds) == Max(1, secs \div Max(1, step_seconds))

\* The body of `for k in range(steps)` for segment i (1-based) starting at
\* t_cursor: the scorer's result with the sample it is appended as.
SimSample(route_points, i, steps, k, t_cursor, step_seconds, scorer, eph) ==
    LET p1 == route_points[i]
        p2 == route_points[i + 1]
        hdg_seg == bearing_deg(p1.lat, p1.lon, p2.lat, p2.lon)
        den == Max(steps, 1)
        when == PlusTicks(t_cursor, k * step_seconds)
    IN  [res |-> ApplyScorer(scorer, eph, when, hdg_seg),
         when |-> when,
         lat |-> Frac(p1.lat * den + (p2.lat - p1.lat) * k, den),
         lon |-> Frac(p1.lon * den + (p2.lon - p1.lon) * k, den),
         hdg |-> hdg_seg]

\* The segment loop from segment i on: `samples` holds what the lists hold
\* so far and t_cursor is the cursor; the result is both after the loop.
SimSegmentSamples(route_points, i, steps, t_cursor, step_seconds, scorer, eph) ==
    [j \in 1..steps |->
       SimSample(route_points, i, steps, j - 1, t_cursor, step_seconds, scorer, eph)]

RECURSIVE SimSegments(_, _, _, _, _, _, _, _)
SimSegments(route_points, segment_minutes, i, t_cursor, step_seconds, scorer, eph, samples) ==
    IF i > Len(route_points) - 1 THEN [samples |-> samples, t_cursor |-> t_cursor]
    ELSE SimSegments(route_points, segment_minutes, i + 1,
                     PlusTicks(t_cursor, seg_secs_total(segment_minutes[i])),
                     step_seconds, scorer, eph,
                     samples \o SimSegmentSamples(
                                    route_points, i,
                                    SimSteps(seg_secs_total(segment_minutes[i]), step_seconds),
                                    t_cursor, step_seconds, scorer, eph))

Raised(exc, calls, lookups) ==
    [exc |-> exc, scorer_calls |-> calls, lookups |-> lookups,
     times_local |-> <<>>, lats |-> <<>>, lons |-> <<>>, hdgs |-> <<>>,
     scores |-> <<>>, sun_azs |-> <<>>, sun_els |-> <<>>, deltas |-> <<>>]

\* Number of lookups the scorer calls 1..n made.
LookupsUpTo(all, n) == SumSeq([j \in 1..n |-> all[j].res.lookups])

\* The final sample: the last point, at the cursor the loop ended on, with
\* the last heading appended (0 if there is none).
SimFinalSample(last, t_cursor, hdg_f, scorer, eph) ==
    [res |-> ApplyScorer(scorer, eph, t_cursor, hdg_f),
     when |-> t_cursor,
     lat |-> Frac(last.lat, 1), lon |-> Frac(last.lon, 1),
     hdg |-> hdg_f]

SimWithFinal(route_points, samples, t_cursor, scorer, eph) ==
    Append(samples,
           SimFinalSample(route_points[Len(route_points)], t_cursor,
                          IF samples # <<>> THEN samples[Len(samples)].hdg ELSE 0,
                          scorer, eph))

\* The first scorer call that raises ends the run; otherwise the dict of
\* lists is returned.
SimRaisedAt(all, j) == Raised(all[j].res.exc, j, LookupsUpTo(all, j))

SimReturn(all, failing) ==
    IF failing # {}
    THEN SimRaisedAt(all, CHOOSE x \in failing : \A y \in failing : x <= y)
    ELSE [exc |-> "none", scorer_calls |-> Len(all),
          lookups |-> LookupsUpTo(all, Len(all)),
          times_local |-> [j \in 1..Len(all) |-> all[j].when],
          lats |-> [j \in 1..Len(all) |-> all[j].lat],
          lons |-> [j \in 1..Len(all) |-> all[j].lon],
          hdgs |-> [j \in 1..Len(all) |-> all[j].hdg],
          scores |-> [j \in 1..Len(all) |-> all[j].res.score],
          sun_azs |-> [j \in 1..Len(all) |-> all[j].res.azimuth_deg],
          sun_els |-> [j \in 1..Len(all) |-> all[j].res.elevation_deg],
          deltas |-> [j \in 1..Len(all) |-> all[j].res.delta_heading_deg]]

SimCalls(all) == SimReturn(all, {j \in 1..Len(all) : all[j].res.exc # "none"})

SimAfterLoop(route_points, walk, scorer, eph) ==
    SimCalls(SimWithFinal(route_points, walk.samples, walk.t_cursor, scorer, eph))

run_glare_simulation_with_durations(route_points, segment_minutes, start_local, step_seconds, scorer, eph) ==
    IF SimArgumentError(route_points, segment_minutes) # "none"
    THEN Raised(SimArgumentError(route_points, segment_minutes), 0, 0)
    ELSE SimAfterLoop(route_points,
                      SimSegments(route_points, segment_minutes, 1, start_local,
                                  step_seconds, scorer, eph, <<>>),
                      scorer, eph)

(***************************************************************************)
(* SpecSim: one run of the simulation on drawn arguments.                  *)
(***************************************************************************)
MaxRoutePoints == 4     \* routes of 0 .. MaxRoutePoints points
MaxStartWall == 1       \* the run starts at wall second 0 .. MaxStartWall

\* Two roads: east along the equator, and up and down a meridian with a
\* repeated point.
PathPoint(path, k) ==
    IF path = "equator" THEN Pt(0, 2 * k) ELSE Pt((k * k) % 5, 1)
Route(path, n) == [k \in 1..n |-> PathPoint(path, k)]

\* Durations in parts of a minute: 0 s, 0.5 s, 1.5 s, 2.5 s, 7 s and, for
\* the ten-second step only, ten minutes.
ShortMinutes == {0, 1, 3, 5, 14}
LongMinutes == {10 * MinuteParts}
StepSeconds == {0, 1, 3, 10}
MovingSun == [az0 |-> 80, el0 |-> 12, daz |-> 1, del |-> 0 - 1]

RECURSIVE SeqsOf(_, _)
SeqsOf(S, n) ==
    IF n = 0 THEN {<<>>}
    ELSE {Append(q, x) : q \in SeqsOf(S, n - 1), x \in S}

InitSim ==
    /\ ephem = MovingSun
    /\ g_call = Idle /\ g_ret = Idle
    /\ \E n \in 0..MaxRoutePoints, m \in 0..(MaxRoutePoints - 1),
          path \in {"equator", "meridian"}, step \in StepSeconds,
          scorer \in Scorers, wall \in 0..MaxStartWall, tz \in {UTC, None} :
          \E mins \in SeqsOf(IF step = 10 THEN ShortMinutes \cup LongMinutes
                             ELSE ShortMinutes, m) :
            /\ (n = 0 => path = "equator")
            /\ (tz = None => wall = 0)
            /\ sim_call = [route_points |-> Route(path, n),
                           segment_minutes |-> mins,
                           start_local |-> [wall |-> wall, tzinfo |-> tz],
                           step_seconds |-> step, scorer |-> scorer]
    /\ sim_ret = [exc |-> Pending]
    /\ request = Idle /\ response = Idle
    /\ request_counts = <<>> /\ clock = 0 /\ handled = 0

RunGlareSimulation ==
    /\ sim_ret.exc = Pending
    /\ sim_ret' = run_glare_simulation_with_durations(
                      sim_call.route_points, sim_call.segment_minutes,
                      sim_call.start_local, sim_call.step_seconds,
                      sim_call.scorer, ephem)
    /\ UNCHANGED <<ephem, g_call, g_ret, sim_call, request, response,
                   request_counts, clock, handled>>

NextSim == RunGlareSimulation

SpecSim == InitSim /\ [][NextSim]_vars

(***************************************************************************)
(* server.py: rate limiting and POST /api/analyze-glare                    *)
(*                                                                         *)
(* An instant of the endpoint counts ticks, a tick being the resolution of *)
(* timedelta; a segment duration is given in parts of a tick (TickParts to *)
(* the tick), so that timedelta(seconds = x) has something to round.  A    *)
(* distance is a whole number of metres.  A departure_time string is the   *)
(* record [valid, wall, offset, z]: whether fromisoformat can parse it     *)
(* once its Z is removed, the date and time it spells, the UTC offset it   *)
(* carries (None when it carries none) and whether it ends in Z.           *)
(***************************************************************************)
RATE_LIMIT_REQUESTS == 60
RATE_LIMIT_WINDOW == 60

EmptyMap == [x \in {} |-> 0]

\* Mutant of check_rate_limit: old windows are never deleted.
check_rate_limit_no_cleanup(counts, client_ip, now) ==
    LET current_window == now \div RATE_LIMIT_WINDOW
        mine == IF client_ip \in DOMAIN counts THEN counts[client_ip] ELSE EmptyMap
        kept == DOMAIN mine
        current_requests == IF current_window \in kept THEN mine[current_window] ELSE 0
        cleaned == [w \in kept |-> mine[w]]
        bumped == [w \in kept \cup {current_window} |->
                     IF w = current_window THEN current_requests + 1 ELSE mine[w]]
        others == [c \in DOMAIN counts \ {client_ip} |-> counts[c]]
    IN  IF current_requests >= RATE_LIMIT_REQUESTS
        THEN [ret |-> FALSE, request_counts |-> others @@ (client_ip :> cleaned)]
        ELSE [ret |-> TRUE, request_counts |-> others @@ (client_ip :> bumped)]

\* Mutant of check_rate_limit: the limit is tested with > instead of >=.
check_rate_limit_off_by_one(counts, client_ip, now) ==
    LET current_window == now \div RATE_LIMIT_WINDOW
        mine == IF client_ip \in DOMAIN counts THEN counts[client_ip] ELSE EmptyMap
        kept == {w \in DOMAIN mine : ~(w < current_window - 1)}
        current_requests == IF current_window \in kept THEN mine[current_window] ELSE 0
        cleaned == [w \in kept |-> mine[w]]
        bumped == [w \in kept \cup {current_window} |->
                     IF w = current_window THEN current_requests + 1 ELSE mine[w]]
        others == [c \in DOMAIN counts \ {client_ip} |-> counts[c]]
    IN  IF current_requests > RATE_LIMIT_REQUESTS
        THEN [ret |-> FALSE, request_counts |-> others @@ (client_ip :> cleaned)]
        ELSE [ret |-> TRUE, request_counts |-> others @@ (client_ip :> bumped)]

check_rate_limit(counts, client_ip, now) ==
    LET current_window == now \div RATE_LIMIT_WINDOW
        mine == IF client_ip \in DOMAIN counts THEN counts[client_ip] ELSE EmptyMap
        kept == {w \in DOMAIN mine : ~(w < current_window - 1)}
        current_requests == IF current_window \in kept THEN mine[current_window] ELSE 0
        cleaned == [w \in kept |-> mine[w]]
        bumped == [w \in kept \cup {current_window} |->
                     IF w = current_window THEN current_requests + 1 ELSE mine[w]]
        others == [c \in DOMAIN counts \ {client_ip} |-> counts[c]]
    IN  IF current_requests >= RATE_LIMIT_REQUESTS
        THEN [ret |-> FALSE, request_counts |-> others @@ (client_ip :> cleaned)]
        ELSE [ret |-> TRUE, request_counts |-> others @@ (client_ip :> bumped)]

\* calculate_heading is the bearing formula of bearing_deg.
calculate_heading(lat1, lon1, lat2, lon2) == bearing_deg(lat1, lon1, lat2, lon2)

\* score_to_color, as the triple (r, g, b) that the hex string spells.
score_to_color(score, scale) ==
    IF 2 * score <= scale
    THEN <<(255 * (2 * score)) \div scale, 255, 0>>
    ELSE <<255, (255 * (2 * scale - 2 * score)) \div scale, 0>>

TickParts == 2

\* timedelta(seconds = n / d): n/d parts, rounded to whole ticks, ties to even.
timedelta(n, d) == PyRound(n, d * TickParts)

\* ZoneInfo(name): the zone's UTC offset in ticks at the instants of the
\* model, or the error for a name the zone database does not have.
ZoneInfo(name) ==
    IF name = "UTC" THEN [exc |-> "none", tz |-> <<0>>]
    ELSE IF name = "America/New_York" THEN [exc |-> "none", tz |-> <<0 - 240>>]
    ELSE [exc |-> "ZoneInfoNotFoundError"]

\* datetime.fromisoformat(text.replace('Z', ''))
fromisoformat_without_z(text) ==
    IF ~text.valid THEN [exc |-> "ValueError"]
    ELSE [exc |-> "none", dt |-> [wall |-> text.wall, tzinfo |-> text.offset]]

\* Lines 347-355: the departure time of the request as a datetime.
ParseDeparture(req) ==
    LET tz == IF req.timezone # "UTC" THEN ZoneInfo(req.timezone)
              ELSE [exc |-> "none", tz |-> UTC]
        parsed == fromisoformat_without_z(req.departure_time)
    IN  IF tz.exc # "none" THEN [exc |-> tz.exc]
        ELSE IF parsed.exc # "none" THEN [exc |-> parsed.exc]
        ELSE [exc |-> "none", dt |-> [wall |-> parsed.dt.wall, tzinfo |-> tz.tz]]

isoformat(t) == [iso_wall |-> t.wall, iso_offset |-> t.tzinfo]

\* Mutant of NumAnalysisPoints: no floor of ten points.
NumAnalysisPoints_no_floor(segment_distance) ==
    Max(1, Min(100, segment_distance \div 50))

\* Mutant of NumAnalysisPoints: round() in place of int().
NumAnalysisPoints_rounding(segment_distance) ==
    Max(10, Min(100, PyRound(segment_distance, 50)))

\* num_analysis_points = max(10, min(100, int(segment_distance / 50)))
NumAnalysisPoints(segment_distance) ==
    Max(10, Min(100, segment_distance \div 50))

\* Mutant of PointTime: the time runs on its own ratio i / n.
PointTime_own_ratio(current_time, i, n, segment_duration) ==
    PlusTicks(current_time, timedelta(i * segment_duration, n))

\* point_time = current_time + timedelta(seconds = ratio * segment_duration),
\* with ratio = i / (n - 1) if n > 1 else 0.
PointTime(current_time, i, n, segment_duration) ==
    IF n > 1 THEN PlusTicks(current_time, timedelta(i * segment_duration, n - 1))
    ELSE PlusTicks(current_time, timedelta(0, 1))

\* Mutant of AnalysisPoint: polyline_index is not capped at the last leg.
AnalysisPoint_unclamped(segment, j, i, n, current_time, count, eph) ==
    LET points == segment.points
        den == IF n > 1 THEN n - 1 ELSE 1
        num == IF n > 1 THEN i ELSE 0            \* ratio = num / den
        total_polyline_points == Len(points)
        polyline_index == (num * (total_polyline_points - 1)) \div den
        \* local_ratio = local / den
        local == num * (total_polyline_points - 1) - polyline_index * den
        p1 == points[polyline_index + 1]
        has_next == polyline_index + 1 < Len(points)
        p2 == IF has_next THEN points[polyline_index + 2] ELSE p1
        single == Len(points) = 1
        lat == IF single THEN Frac(points[1].lat, 1)
               ELSE Frac(p1.lat * den + (p2.lat - p1.lat) * local, den)
        lng == IF single THEN Frac(points[1].lng, 1)
               ELSE Frac(p1.lng * den + (p2.lng - p1.lng) * local, den)
        heading == IF single THEN 0
                   ELSE IF has_next
                        THEN calculate_heading(p1.lat, p1.lng, p2.lat, p2.lng)
                   ELSE IF polyline_index > 0
                        THEN calculate_heading(points[polyline_index].lat,
                                               points[polyline_index].lng,
                                               p1.lat, p1.lng)
                   ELSE 0
        branch == IF single THEN "single"
                  ELSE IF has_next THEN "local"
                  ELSE IF polyline_index > 0 THEN "previous" ELSE "zero"
        point_time == PointTime(current_time, i, n, segment.duration)
        res == practical_glare_score(eph, point_time, heading)
    IN  [point |-> [lat |-> lat, lng |-> lng,
                    timestamp |-> isoformat(point_time),
                    glare_score |-> res.score, sun_azimuth |-> res.azimuth_deg,
                    sun_elevation |-> res.elevation_deg, heading |-> heading,
                    color |-> score_to_color(res.score, res.scale)],
         trace |-> [segment |-> j, i |-> i, n |-> n, branch |-> branch,
                    polyline_index |-> IF single THEN 0 ELSE polyline_index,
                    local_ratio |-> IF single THEN Frac(0, 1) ELSE Frac(local, den)],
         lookups |-> res.lookups]

\* The body of `for i in range(num_analysis_points)` for segment number j:
\* the glare point appended, with a trace of where it came from.
AnalysisPoint(segment, j, i, n, current_time, count, eph) ==
    LET points == segment.points
        den == IF n > 1 THEN n - 1 ELSE 1
        num == IF n > 1 THEN i ELSE 0            \* ratio = num / den
        total_polyline_points == Len(points)
        polyline_index == Min((num * (total_polyline_points - 1)) \div den,
                              total_polyline_points - 2)
        \* local_ratio = local / den
        local == num * (total_polyline_points - 1) - polyline_index * den
        p1 == points[polyline_index + 1]
        has_next == polyline_index + 1 < Len(points)
        p2 == IF has_next THEN points[polyline_index + 2] ELSE p1
        single == Len(points) = 1
        lat == IF single THEN Frac(points[1].lat, 1)
               ELSE Frac(p1.lat * den + (p2.lat - p1.lat) * local, den)
        lng == IF single THEN Frac(points[1].lng, 1)
               ELSE Frac(p1.lng * den + (p2.lng - p1.lng) * local, den)
        heading == IF single THEN 0
                   ELSE IF has_next
                        THEN calculate_heading(p1.lat, p1.lng, p2.lat, p2.lng)
                   ELSE IF polyline_index > 0
                        THEN calculate_heading(points[polyline_index].lat,
                                               points[polyline_index].lng,
                                               p1.lat, p1.lng)
                   ELSE 0
        branch == IF single THEN "single"
                  ELSE IF has_next THEN "local"
                  ELSE IF polyline_index > 0 THEN "previous" ELSE "zero"
        point_time == PointTime(current_time, i, n, segment.duration)
        res == practical_glare_score(eph, point_time, heading)
    IN  [point |-> [lat |-> lat, lng |-> lng,
                    timestamp |-> isoformat(point_time),
                    glare_score |-> res.score, sun_azimuth |-> res.azimuth_deg,
                    sun_elevation |-> res.elevation_deg, heading |-> heading,
                    color |-> score_to_color(res.score, res.scale)],
         trace |-> [segment |-> j, i |-> i, n |-> n, branch |-> branch,
                    polyline_index |-> IF single THEN 0 ELSE polyline_index,
                    local_ratio |-> IF single THEN Frac(0, 1) ELSE Frac(local, den)],
         lookups |-> res.lookups]

\* `for segment in request.segments`, from segment number j on.
RECURSIVE AnalyzeSegments(_, _, _, _, _)
AnalyzeSegments(segments, j, current_time, count, eph) ==
    IF j > Len(segments) THEN <<>>
    ELSE LET segment == segments[j]
         IN  IF Len(segment.points) < 1
             THEN AnalyzeSegments(segments, j + 1, current_time, count, eph)
             ELSE LET n == NumAnalysisPoints(segment.distance)
                      here == [x \in 1..n |->
                                 AnalysisPoint(segment, j, x - 1, n, current_time,
                                               count + x - 1, eph)]
                  IN  here \o AnalyzeSegments(
                                  segments, j + 1,
                                  PlusTicks(current_time, timedelta(segment.duration, 1)),
                                  count + n, eph)


SeqMax(q) == CHOOSE x \in {q[k] : k \in 1..Len(q)} : \A k \in 1..Len(q) : q[k] <= x
SeqMin(q) == CHOOSE x \in {q[k] : k \in 1..Len(q)} : \A k \in 1..Len(q) : x <= q[k]

PracticalScale == ElevScale * PRACTICAL_THETA_H * PRACTICAL_THETA_H

\* Mutant of Statistics: a score of exactly 0.7 counts as high.
Statistics_high_from_07(glare_points, total_duration, departure_dt) ==
    LET scores == [k \in 1..Len(glare_points) |-> glare_points[k].glare_score]
    IN  [total_points |-> Len(glare_points),
         max_glare |-> IF scores # <<>> THEN SeqMax(scores) ELSE 0,
         min_glare |-> IF scores # <<>> THEN SeqMin(scores) ELSE 0,
         avg_glare |-> IF scores # <<>> THEN Frac(SumSeq(scores), Len(scores))
                       ELSE Frac(0, 1),
         high_glare_points |->
             Cardinality({k \in 1..Len(scores) : 10 * scores[k] >= 7 * PracticalScale}),
         total_duration_minutes |-> Frac(total_duration, 60),
         departure_time |-> isoformat(departure_dt),
         arrival_time |-> isoformat(PlusTicks(departure_dt, timedelta(total_duration, 1)))]

\* Lines 446-457.  Scores are numerators over PracticalScale; avg_glare is a
\* fraction of such numerators; total_duration_minutes a fraction of parts.
Statistics(glare_points, total_duration, departure_dt) ==
    LET scores == [k \in 1..Len(glare_points) |-> glare_points[k].glare_score]
    IN  [total_points |-> Len(glare_points),
         max_glare |-> IF scores # <<>> THEN SeqMax(scores) ELSE 0,
         min_glare |-> IF scores # <<>> THEN SeqMin(scores) ELSE 0,
         avg_glare |-> IF scores # <<>> THEN Frac(SumSeq(scores), Len(scores))
                       ELSE Frac(0, 1),
         high_glare_points |->
             Cardinality({k \in 1..Len(scores) : 10 * scores[k] > 7 * PracticalScale}),
         total_duration_minutes |-> Frac(total_duration, 60),
         departure_time |-> isoformat(departure_dt),
         arrival_time |-> isoformat(PlusTicks(departure_dt, timedelta(total_duration, 1)))]

HTTPException(status, detail, cause) ==
    [exc |-> "HTTPException", fn |-> "analyze_route_glare", status |-> status,
     detail |-> detail, cause |-> cause, lookups |-> 0]

\* Lines 345-477, the try block: the HTTPException(400) of the parse is
\* itself caught by `except Exception` and answered as a 500.
analyze_route_glare_body(req, eph) ==
    LET departure == ParseDeparture(req)
    IN  IF departure.exc # "none"
        THEN HTTPException(500, "Failed to analyze glare",
                           "400: Invalid departure_time format")
        ELSE LET all == AnalyzeSegments(req.segments, 1, departure.dt, 0, eph)
                 glare_points == [k \in 1..Len(all) |-> all[k].point]
             IN  [exc |-> "none", fn |-> "analyze_route_glare", status |-> 200,
                  glare_points |-> glare_points,
                  statistics |-> Statistics(
                      glare_points,
                      SumSeq([k \in 1..Len(req.segments) |-> req.segments[k].duration]),
                      departure.dt),
                  trace |-> [k \in 1..Len(all) |-> all[k].trace],
                  lookups |-> SumSeq([k \in 1..Len(all) |-> all[k].lookups])]

analyze_route_glare(req, counts, now, eph) ==
    LET limit == check_rate_limit(counts, req.client_ip, now)
    IN  [request_counts |-> limit.request_counts,
         response |-> IF ~limit.ret
                      THEN HTTPException(429, "Rate limit exceeded", "")
                      ELSE analyze_route_glare_body(req, eph)]

(***************************************************************************)
(* SpecAnalyze: requests to POST /api/analyze-glare.                       *)
(***************************************************************************)
MaxSegments == 2        \* a request has 0 .. MaxSegments segments
MaxRequests == 2        \* a client sends its request at most this often

RoutePoint(lat, lng) == [lat |-> lat, lng |-> lng]

\* Polylines: none, a single point, one leg east along the equator, two legs
\* of unequal length, and a meridian walked north, held, then south.
Polylines ==
    {<<>>,
     <<RoutePoint(0, 0)>>,
     <<RoutePoint(0, 0), RoutePoint(0, 4)>>,
     <<RoutePoint(0, 0), RoutePoint(0, 1), RoutePoint(0, 4)>>,
     <<RoutePoint(0, 1), RoutePoint(3, 1), RoutePoint(3, 1), RoutePoint(1, 1)>>}

Distances == {0, 100, 499, 540, 775, 4975, 5000, 7000}
Durations == {0, 1, 3, 9, 18}

\* The segments of single-segment requests: every distance on the one-leg
\* polyline, and every polyline with every duration on a short distance.
SegmentCatalog ==
    {[points |-> <<RoutePoint(0, 0), RoutePoint(0, 4)>>, distance |-> d, duration |-> 9] :
        d \in Distances}
    \cup {[points |-> pl, distance |-> 100, duration |-> du] :
            pl \in Polylines, du \in Durations}

\* The segments of longer requests: every polyline on a short distance, a
\* segment without points that takes time, and two long ones.
RouteCatalog ==
    {[points |-> pl, distance |-> 100, duration |-> 3] : pl \in Polylines}
    \cup {[points |-> <<>>, distance |-> 775, duration |-> 18],
          [points |-> <<RoutePoint(0, 0), RoutePoint(0, 4)>>,
           distance |-> 4975, duration |-> 9],
          [points |-> <<RoutePoint(0, 0), RoutePoint(0, 1), RoutePoint(0, 4)>>,
           distance |-> 5000, duration |-> 1]}

DepartureTexts ==
    {[valid |-> TRUE, wall |-> 0, offset |-> None, z |-> FALSE],
     [valid |-> TRUE, wall |-> 5, offset |-> None, z |-> TRUE],
     [valid |-> TRUE, wall |-> 0, offset |-> <<0 - 120>>, z |-> FALSE],
     [valid |-> FALSE, wall |-> 0, offset |-> None, z |-> FALSE]}
TimezoneNames == {"UTC", "America/New_York", "Mars/Olympus_Mons"}

PlainDeparture == [valid |-> TRUE, wall |-> 0, offset |-> None, z |-> FALSE]
Client == "10.0.0.1"

\* The sun of the endpoint's runs, a degree or two a tick: rising ahead of
\* an eastbound car, and setting off to its left.
AnalyzeSuns ==
    {[az0 |-> 85, el0 |-> 1, daz |-> 1, del |-> 1],
     [az0 |-> 40, el0 |-> 12, daz |-> 2, del |-> 0 - 1]}

PendingResponse == [exc |-> Pending, fn |-> "analyze_route_glare", status |-> 0]

InitAnalyze ==
    /\ ephem \in AnalyzeSuns
    /\ g_call = Idle /\ g_ret = Idle /\ sim_call = Idle /\ sim_ret = Idle
    /\ handled = 0
    /\ \/ \E seg \in SegmentCatalog :
            /\ request = [client_ip |-> Client, segments |-> <<seg>>,
                          departure_time |-> PlainDeparture, timezone |-> "UTC"]
            /\ request_counts = EmptyMap /\ clock = 0
       \/ \E m \in 0..MaxSegments : \E segs \in SeqsOf(RouteCatalog, m) :
            /\ request = [client_ip |-> Client, segments |-> segs,
                          departure_time |-> PlainDeparture, timezone |-> "UTC"]
            /\ request_counts = EmptyMap /\ clock = 0
       \/ \E pl \in Polylines, text \in DepartureTexts, zone \in TimezoneNames,
             before \in {0, RATE_LIMIT_REQUESTS - 1}, now \in {0, 59, 130} :
            /\ request = [client_ip |-> Client,
                          segments |-> <<[points |-> pl, distance |-> 100,
                                          duration |-> 3]>>,
                          departure_time |-> text, timezone |-> zone]
            /\ request_counts = IF before = 0 THEN EmptyMap
                                ELSE Client :> ((now \div RATE_LIMIT_WINDOW) :> before)
            /\ clock = now
    /\ response = PendingResponse

AnalyzeRouteGlare ==
    /\ response.exc = Pending
    /\ LET r == analyze_route_glare(request, request_counts, clock, ephem)
       IN  /\ response' = r.response
           /\ request_counts' = r.request_counts
    /\ handled' = handled + 1
    /\ UNCHANGED <<ephem, g_call, g_ret, sim_call, sim_ret, request, clock>>

\* The client sends a one-segment request again, at once or a window later.
Resubmit ==
    /\ response.exc \notin {Pending, "idle"}
    /\ handled < MaxRequests
    /\ Len(request.segments) = 1
    /\ response' = PendingResponse
    /\ clock' \in {clock, clock + RATE_LIMIT_WINDOW}
    /\ UNCHANGED <<ephem, g_call, g_ret, sim_call, sim_ret, request,
                   request_counts, handled>>

NextAnalyze == AnalyzeRouteGlare \/ Resubmit

SpecAnalyze == InitAnalyze /\ [][NextAnalyze]_vars

SimReturned == sim_ret.exc = "none"

\* Equality of two fractions.
FracEq(x, y) == x.n * y.d = y.n * x.d

\* The number of samples the claim gives segment i: with the segment's
\* seconds taken as they are given (exact), or as the whole number of seconds
\* they round to, at least 1.
ClaimedSteps(exact, i) ==
    LET m == sim_call.segment_minutes[i]
        step == sim_call.step_seconds
    IN  IF exact THEN Max(1, (m * 60) \div (MinuteParts * step))
        ELSE Max(1, Max(1, PyRound(m * 60, MinuteParts)) \div step)

RECURSIVE ClaimedOffset(_, _)
ClaimedOffset(exact, i) ==
    IF i = 1 THEN 0
    ELSE ClaimedOffset(exact, i - 1) + ClaimedSteps(exact, i - 1)

\* The output has, segment after segment, the claimed number of samples at
\* the fractions k/steps of the segment, and then one sample at the last
\* point.
SimShape(exact) ==
    LET pts == sim_call.route_points
        N == Len(pts)
        total == ClaimedOffset(exact, N)
    IN  /\ Len(sim_ret.times_local) = total + 1
        /\ Len(sim_ret.lats) = total + 1 /\ Len(sim_ret.lons) = total + 1
        /\ \A i \in 1..(N - 1) :
             LET c == ClaimedSteps(exact, i)
                 off == ClaimedOffset(exact, i)
             IN  \A k \in 0..(c - 1) :
                   /\ off + k + 1 <= total
                   /\ FracEq(sim_ret.lats[off + k + 1],
                             Frac(pts[i].lat * c + (pts[i + 1].lat - pts[i].lat) * k, c))
                   /\ FracEq(sim_ret.lons[off + k + 1],
                             Frac(pts[i].lon * c + (pts[i + 1].lon - pts[i].lon) * k, c))
        /\ FracEq(sim_ret.lats[Len(sim_ret.lats)], Frac(pts[N].lat, 1))
        /\ FracEq(sim_ret.lons[Len(sim_ret.lons)], Frac(pts[N].lon, 1))

\* One segment of ten minutes sampled every ten seconds.
TenMinuteRun ==
    /\ Len(sim_call.route_points) = 2
    /\ sim_call.segment_minutes = <<10 * MinuteParts>>
    /\ sim_call.step_seconds = 10

TenMinuteResult ==
    /\ Len(sim_ret.times_local) = 61
    /\ sim_ret.times_local[61].wall = sim_call.start_local.wall + 600

BadSimArguments ==
    \/ Len(sim_call.route_points) < 2
    \/ Len(sim_call.segment_minutes) # Len(sim_call.route_points) - 1

\* C5: with fewer than 2 route points, or a duration list whose length is
\* not len(route_points) - 1, the run fails with an error, the scorer is
\* never called and no samples are returned.
C5_BadArgumentsRejected ==
    (sim_ret.exc \notin {"idle", Pending} /\ BadSimArguments) =>
        /\ sim_ret.exc = "ValueError"
        /\ sim_ret.scorer_calls = 0
        /\ sim_ret.times_local = <<>> /\ sim_ret.scores = <<>>

\* Three points with three durations: rejected.
C5_Witness ==
    /\ Len(sim_call.route_points) = 3 /\ Len(sim_call.segment_minutes) = 3
    /\ sim_ret.exc = "ValueError" /\ sim_ret.scorer_calls = 0

(***************************************************************************)
(* Properties of POST /api/analyze-glare.                                  *)
(***************************************************************************)
Answered == response.status = 200

\* The glare points that segment number j of the request produced.
PointsOfSegment(j) == {k \in 1..Len(response.trace) : response.trace[k].segment = j}

NonEmptySegments == {j \in 1..Len(request.segments) : Len(request.segments[j].points) >= 1}

Clamp(x, lo, hi) == IF x < lo THEN lo ELSE IF x > hi THEN hi ELSE x

\* C6 as stated: a segment with at least one point gets
\* clamp(round(distance_m / 50), 10, 100) analysis points.
C6_PointCountRounded_Stated ==
    Answered =>
        \A j \in NonEmptySegments :
            Cardinality(PointsOfSegment(j))
                = Clamp(PyRound(request.segments[j].distance, 50), 10, 100)

\* C6 amended: a segment with at least one point gets
\* clamp(floor(distance_m / 50), 10, 100) analysis points: the quotient is
\* truncated, not rounded.
C6_PointCountTruncated ==
    Answered =>
        \A j \in NonEmptySegments :
            /\ Cardinality(PointsOfSegment(j))
                 = Clamp(request.segments[j].distance \div 50, 10, 100)
            /\ \A k \in PointsOfSegment(j) :
                 response.trace[k].n = Cardinality(PointsOfSegment(j))

\* 775 m, where 775 / 50 = 15.5: fifteen points.
C6_Witness ==
    /\ Answered
    /\ \E j \in NonEmptySegments :
         /\ request.segments[j].distance = 775
         /\ Cardinality(PointsOfSegment(j)) = 15

\* C7: every segment with at least one point yields between 10 and 100 glare
\* points, 5000 m exactly 100 and 100 m exactly 10, so a request with a
\* non-empty segment is never answered with an empty point list.
C7_PointCountBounds ==
    Answered =>
        /\ \A j \in NonEmptySegments :
             LET c == Cardinality(PointsOfSegment(j))
             IN  /\ 10 <= c /\ c <= 100
                 /\ (request.segments[j].distance = 5000 => c = 100)
                 /\ (request.segments[j].distance = 100 => c = 10)
        /\ (NonEmptySegments # {} => response.glare_points # <<>>)

\* A request whose first segment has no points and whose second is 5000 m.
C7_Witness ==
    /\ Answered /\ Len(request.segments) = 2
    /\ request.segments[1].points = <<>>
    /\ request.segments[2].distance = 5000
    /\ Len(response.glare_points) = 100

\* The start of segment j as the endpoint keeps it: the departure, moved on
\* by the timedelta of every segment before j that has points (a segment
\* without points is skipped before the clock is advanced).
RECURSIVE SegmentStart(_)
SegmentStart(j) ==
    IF j = 1 THEN response.statistics.departure_time.iso_wall
    ELSE SegmentStart(j - 1)
           + (IF Len(request.segments[j - 1].points) >= 1
              THEN timedelta(request.segments[j - 1].duration, 1) ELSE 0)

\* p is the point of the polyline at the fraction num/den of its vertex
\* index range.
OnPolylineAt(points, p, num, den) ==
    IF Len(points) = 1
    THEN FracEq(p.lat, Frac(points[1].lat, 1)) /\ FracEq(p.lng, Frac(points[1].lng, 1))
    ELSE \E v \in 1..(Len(points) - 1) :
           LET u == num * (Len(points) - 1) - (v - 1) * den   \* u/den into leg v
           IN  /\ 0 <= u /\ u <= den
               /\ FracEq(p.lat, Frac(points[v].lat * den
                                     + (points[v + 1].lat - points[v].lat) * u, den))
               /\ FracEq(p.lng, Frac(points[v].lng * den
                                     + (points[v + 1].lng - points[v].lng) * u, den))

\* C8: one ratio i/(n-1) drives both interpolations of sample i of a segment
\* with n analysis points: the position is the polyline's point at that
\* fraction of its vertex index range, the time is the segment start plus
\* that fraction of the duration; the first sample is the first point at the
\* segment start, the last the last point at start + duration.
C8_SharedRatio ==
    Answered =>
        \A k \in 1..Len(response.glare_points) :
            LET t == response.trace[k]
                seg == request.segments[t.segment]
                pt == response.glare_points[k]
                start == SegmentStart(t.segment)
            IN  /\ OnPolylineAt(seg.points, pt, t.i, t.n - 1)
                /\ pt.timestamp.iso_wall = start + timedelta(t.i * seg.duration, t.n - 1)
                /\ (t.i = 0 =>
                      /\ pt.timestamp.iso_wall = start
                      /\ FracEq(pt.lat, Frac(seg.points[1].lat, 1))
                      /\ FracEq(pt.lng, Frac(seg.points[1].lng, 1)))
                /\ (t.i = t.n - 1 =>
                      /\ pt.timestamp.iso_wall = start + timedelta(seg.duration, 1)
                      /\ FracEq(pt.lat, Frac(seg.points[Len(seg.points)].lat, 1))
                      /\ FracEq(pt.lng, Frac(seg.points[Len(seg.points)].lng, 1)))

\* A sample strictly inside the second leg of a three-point polyline, after
\* the start of a segment that takes time.
C8_Witness ==
    /\ Answered
    /\ \E k \in 1..Len(response.glare_points) :
         LET t == response.trace[k]
         IN  /\ Len(request.segments[t.segment].points) = 3
             /\ request.segments[t.segment].duration = 18
             /\ t.polyline_index = 1
             /\ 0 < t.local_ratio.n /\ t.local_ratio.n < t.local_ratio.d
             /\ response.glare_points[k].timestamp.iso_wall
                  > SegmentStart(t.segment)

InitEntry == InitGlare \/ InitSim \/ InitAnalyze
NextEntry == NextGlare \/ NextSim \/ NextAnalyze
SpecEntry == InitEntry /\ [][NextEntry]_vars

ScorerGotNaive ==
    /\ g_call.fn \in Scorers /\ g_ret.exc # Pending
    /\ g_call.when.tzinfo = None

SimGotNaive ==
    /\ sim_ret.exc \notin {"idle", Pending} /\ ~BadSimArguments
    /\ sim_call.start_local.tzinfo = None

\* The endpoint got past its rate limit with a departure_time that spells a
\* date and time but neither an offset nor Z, and a timezone name it knows.
EndpointGotNaive ==
    /\ response.fn = "analyze_route_glare"
    /\ response.exc # Pending /\ response.status # 429
    /\ request.departure_time.valid
    /\ request.departure_time.offset = None /\ ~request.departure_time.z
    /\ ZoneInfo(request.timezone).exc = "none"

FunctionsRejectNaive ==
    /\ ScorerGotNaive => (g_ret.exc = "ValueError" /\ g_ret.lookups = 0)
    /\ SimGotNaive => /\ sim_ret.exc = "ValueError" /\ sim_ret.lookups = 0
                      /\ sim_ret.times_local = <<>> /\ sim_ret.scores = <<>>

\* C9 as stated: every entry point, the endpoint included, rejects an instant
\* without a UTC offset before any solar lookup or sample.
C9_NaiveRejectedEverywhere_Stated ==
    /\ FunctionsRejectNaive
    /\ EndpointGotNaive => (response.status # 200 /\ response.lookups = 0)

\* C9 amended: glare_score, practical_glare_score and the simulation reject
\* it so; the endpoint does not: it reads an offset-less departure_time as
\* wall time in the request's timezone (UTC by default) and scores it.
C9_NaiveRejectedByFunctions ==
    /\ FunctionsRejectNaive
    /\ EndpointGotNaive =>
         /\ response.status = 200
         /\ response.statistics.departure_time
              = [iso_wall |-> request.departure_time.wall,
                 iso_offset |-> ZoneInfo(request.timezone).tz]
         /\ (NonEmptySegments # {} => response.lookups > 0)

\* The simulation refusing a naive start at its first scorer call, before
\* any lookup.
C9_Witness ==
    /\ SimGotNaive /\ sim_ret.exc = "ValueError"
    /\ sim_ret.scorer_calls = 1 /\ sim_ret.lookups = 0

(***************************************************************************)
(* server.py: the proxy endpoints of the Google APIs                       *)
(*                                                                         *)
(* The call `http_client.get(...)` with `raise_for_status()` and `.json()` *)
(* has one of three outcomes, which the request carries as `upstream`:     *)
(* [kind |-> "ok", body], [kind |-> "HTTPError", message] (a transport     *)
(* failure or an error status: both are httpx.HTTPError) and               *)
(* [kind |-> "JSONDecodeError"] (a body that is not JSON, which is not an  *)
(* httpx.HTTPError).                                                       *)
(***************************************************************************)
ProxyEndpoints == {"places_autocomplete", "place_details", "directions"}

\* The text before the colon in the detail of the endpoint's `except`.
FailurePrefix(fn) ==
    IF fn = "places_autocomplete" THEN "Failed to fetch places"
    ELSE IF fn = "place_details" THEN "Failed to fetch place details"
    ELSE "Failed to fetch directions"

ProxyHTTPException(fn, status, detail, cause) ==
    [exc |-> "HTTPException", fn |-> fn, status |-> status,
     detail |-> detail, cause |-> cause, body |-> None]

\* The try block of a proxy endpoint.  An exception that is not an
\* httpx.HTTPError leaves the handler and the framework answers 500.
ProxyFetch(fn, upstream) ==
    IF upstream.kind = "HTTPError"
    THEN ProxyHTTPException(fn, 500, FailurePrefix(fn), upstream.message)
    ELSE IF upstream.kind = "JSONDecodeError"
    THEN [exc |-> "JSONDecodeError", fn |-> fn, status |-> 500,
          detail |-> "Internal Server Error", cause |-> "", body |-> None]
    ELSE [exc |-> "none", fn |-> fn, status |-> 200,
          detail |-> "", cause |-> "", body |-> <<upstream.body>>]

ProxyLimited(fn, limit, upstream) ==
    [request_counts |-> limit.request_counts,
     response |-> IF ~limit.ret
                  THEN ProxyHTTPException(fn, 429, "Rate limit exceeded", "")
                  ELSE ProxyFetch(fn, upstream)]

\* places_autocomplete, place_details and directions differ in the URL, the
\* parameters and the prefix of the failure detail only.
ProxyEndpoint(fn, req, counts, now) ==
    IF ~req.settings
    THEN [request_counts |-> counts,
          response |-> ProxyHTTPException(fn, 500, "Google API keys not configured", "")]
    ELSE ProxyLimited(fn, check_rate_limit(counts, req.client_ip, now), req.upstream)

places_autocomplete(req, counts, now) == ProxyEndpoint("places_autocomplete", req, counts, now)
place_details(req, counts, now) == ProxyEndpoint("place_details", req, counts, now)
directions(req, counts, now) == ProxyEndpoint("directions", req, counts, now)

(***************************************************************************)
(* SpecProxy: one request to a proxy endpoint, with the upstream's outcome *)
(* drawn.                                                                  *)
(***************************************************************************)
UpstreamOutcomes ==
    {[kind |-> "ok", body |-> "routes"], [kind |-> "ok", body |-> "ZERO_RESULTS"],
     [kind |-> "HTTPError", message |-> "upstream failure"],
     [kind |-> "HTTPError", message |-> "Server error '503 Service Unavailable'"],
     [kind |-> "JSONDecodeError"]}

InitProxy ==
    /\ ephem = StillSun(0, 0)
    /\ g_call = Idle /\ g_ret = Idle /\ sim_call = Idle /\ sim_ret = Idle
    /\ handled = 0
    /\ \E fn \in ProxyEndpoints, configured \in BOOLEAN, up \in UpstreamOutcomes,
          before \in {0, RATE_LIMIT_REQUESTS - 1, RATE_LIMIT_REQUESTS},
          now \in {0, 59, 130} :
         /\ request = [fn |-> fn, client_ip |-> Client, settings |-> configured,
                       upstream |-> up]
         /\ request_counts = IF before = 0 THEN EmptyMap
                             ELSE Client :> ((now \div RATE_LIMIT_WINDOW) :> before)
         /\ clock = now
         /\ response = [exc |-> Pending, fn |-> fn, status |-> 0]

PlacesAutocomplete ==
    /\ request.fn = "places_autocomplete" /\ response.exc = Pending
    /\ response' = places_autocomplete(request, request_counts, clock).response
    /\ request_counts' = places_autocomplete(request, request_counts, clock).request_counts
    /\ handled' = handled + 1
    /\ UNCHANGED <<ephem, g_call, g_ret, sim_call, sim_ret, request, clock>>

PlaceDetails ==
    /\ request.fn = "place_details" /\ response.exc = Pending
    /\ response' = place_details(request, request_counts, clock).response
    /\ request_counts' = place_details(request, request_counts, clock).request_counts
    /\ handled' = handled + 1
    /\ UNCHANGED <<ephem, g_call, g_ret, sim_call, sim_ret, request, clock>>

Directions ==
    /\ request.fn = "directions" /\ response.exc = Pending
    /\ response' = directions(request, request_counts, clock).response
    /\ request_counts' = directions(request, request_counts, clock).request_counts
    /\ handled' = handled + 1
    /\ UNCHANGED <<ephem, g_call, g_ret, sim_call, sim_ret, request, clock>>

NextProxy == PlacesAutocomplete \/ PlaceDetails \/ Directions

SpecProxy == InitProxy /\ [][NextProxy]_vars

\* The endpoint made its upstream call and the call failed.
UpstreamFailed ==
    /\ request.fn \in ProxyEndpoints /\ response.exc # Pending
    /\ request.settings /\ response.status # 429
    /\ request.upstream.kind = "HTTPError"

\* C11 as stated: an endpoint whose upstream call fails answers 502 with the
\* failure message as its detail, and gives no partial result.
C11_UpstreamFailureIs502_Stated ==
    UpstreamFailed =>
        /\ response.status = 502
        /\ response.detail = request.upstream.message
        /\ response.body = None

(***************************************************************************)
(* SpecLimiter: calls of check_rate_limit by several clients, interleaved  *)
(* in any order, under a clock that never runs backwards.  Here `handled`  *)
(* tallies, per client and window, the calls made and the calls answered   *)
(* True, and `response` is the last call with its number within its        *)
(* client's window.                                                        *)
(***************************************************************************)
MaxCalls == 62          \* calls the busy client makes in all
MaxOtherCalls == 2      \* calls every other client makes in all

OtherClient == "10.0.0.2"
LimiterClients == {Client, OtherClient}
ClockReadings == {0, 59, 60, 119}
LimiterWindows == {t \div RATE_LIMIT_WINDOW : t \in ClockReadings}

CallBudget(c) == IF c = Client THEN MaxCalls ELSE MaxOtherCalls
CallsMade(c) == SumSeq([k \in 1..Cardinality(LimiterWindows) |-> handled[c][k - 1].calls])

InitLimiter ==
    /\ ephem = StillSun(0, 0)
    /\ g_call = Idle /\ g_ret = Idle /\ sim_call = Idle /\ sim_ret = Idle
    /\ request = [fn |-> "check_rate_limit"]
    /\ response = [exc |-> "idle", fn |-> "check_rate_limit", status |-> 0]
    /\ request_counts = EmptyMap
    /\ clock = 0
    /\ handled = [c \in LimiterClients |->
                    [w \in LimiterWindows |-> [calls |-> 0, trues |-> 0]]]

Tallied(tally, c, w, ret) ==
    [tally EXCEPT ![c][w] = [calls |-> @.calls + 1,
                             trues |-> @.trues + (IF ret THEN 1 ELSE 0)]]

CheckRateLimit ==
    \E c \in LimiterClients :
        /\ CallsMade(c) < CallBudget(c)
        /\ request_counts' = check_rate_limit(request_counts, c, clock).request_counts
        /\ response' = [exc |-> "none", fn |-> "check_rate_limit", status |-> 0,
                        client_ip |-> c, window |-> clock \div RATE_LIMIT_WINDOW,
                        nth |-> handled[c][clock \div RATE_LIMIT_WINDOW].calls + 1,
                        ret |-> check_rate_limit(request_counts, c, clock).ret]
        /\ handled' = Tallied(handled, c, clock \div RATE_LIMIT_WINDOW,
                              check_rate_limit(request_counts, c, clock).ret)
        /\ UNCHANGED <<ephem, g_call, g_ret, sim_call, sim_ret, request, clock>>

\* time.time() moves on.
Tick ==
    /\ \E t \in ClockReadings : t > clock /\ clock' = t
    /\ UNCHANGED <<ephem, g_call, g_ret, sim_call, sim_ret, request, response,
                   request_counts, handled>>

NextLimiter == CheckRateLimit \/ Tick

SpecLimiter == InitLimiter /\ [][NextLimiter]_vars

\* C12: a client is answered True at most RATE_LIMIT_REQUESTS (60) times in
\* one window, whatever the other clients do, and its 61st and later calls
\* in that window are answered False.
C12_SixtyPerWindow ==
    /\ \A c \in LimiterClients, w \in LimiterWindows :
         handled[c][w].trues <= RATE_LIMIT_REQUESTS
    /\ (response.exc = "none" /\ response.nth > RATE_LIMIT_REQUESTS) => ~response.ret

\* The busy client refused on its 61st call of the second window, after the
\* other client was served in that window and it was itself served in the
\* first.
C12_Witness ==
    /\ response.exc = "none" /\ response.client_ip = Client
    /\ response.window = 1 /\ response.nth = RATE_LIMIT_REQUESTS + 1 /\ ~response.ret
    /\ handled[Client][1].trues = RATE_LIMIT_REQUESTS
    /\ handled[Client][0].trues = 1
    /\ handled[OtherClient][1].trues = 1

\* The instant of the final sample of a run that returned.
SimEndInstant == sim_ret.times_local[Len(sim_ret.times_local)]

\* C13 as stated: the final sample is taken at start_local plus the sum of
\* the segment durations (segment_minutes counts parts of a minute, a tick
\* is a second).
C13_EndTimeIsSum_Stated ==
    SimReturned =>
        /\ SimEndInstant.tzinfo = sim_call.start_local.tzinfo
        /\ (SimEndInstant.wall - sim_call.start_local.wall) * MinuteParts
             = SumSeq(sim_call.segment_minutes) * 60

\* Length of leg v of a polyline whose legs run along a meridian or along the
\* equator, in degrees of arc, and the length of its first v legs.
LegLength(points, v) ==
    Abs(points[v + 1].lat - points[v].lat) + Abs(points[v + 1].lng - points[v].lng)
LengthUpTo(points, v) == SumSeq([k \in 1..v |-> LegLength(points, k)])

\* p lies at the fraction num/den of the polyline's length from its first
\* point: on some leg v, s/den of arc into it.
AtArcLength(points, p, num, den) ==
    \E v \in 1..(Len(points) - 1) :
        LET s == num * LengthUpTo(points, Len(points) - 1) - den * LengthUpTo(points, v - 1)
            scale == den * LegLength(points, v)
        IN  /\ LegLength(points, v) > 0
            /\ 0 <= s /\ s <= scale
            /\ FracEq(p.lat, Frac(points[v].lat * scale
                                  + (points[v + 1].lat - points[v].lat) * s, scale))
            /\ FracEq(p.lng, Frac(points[v].lng * scale
                                  + (points[v + 1].lng - points[v].lng) * s, scale))

\* C14 as stated: the sample with ratio r of a segment lies at r times the
\* polyline's length from the polyline's first point.
C14_ArcLengthProportional_Stated ==
    Answered =>
        \A k \in 1..Len(response.glare_points) :
            LET t == response.trace[k]
                points == request.segments[t.segment].points
            IN  (Len(points) >= 2 /\ LengthUpTo(points, Len(points) - 1) > 0) =>
                    AtArcLength(points, response.glare_points[k], t.i, t.n - 1)

\* The endpoint got past its rate limit with a departure_time that
\* fromisoformat cannot parse, or a timezone name ZoneInfo does not know.
BadDeparture ==
    /\ response.fn = "analyze_route_glare"
    /\ response.exc # Pending /\ response.status # 429
    /\ \/ ~request.departure_time.valid
       \/ request.timezone # "UTC" /\ ZoneInfo(request.timezone).exc # "none"

\* C15 as stated: such a request is answered 400 with the detail 'Invalid
\* departure_time format: ...', and no glare point is computed for it.
C15_BadDepartureIs400_Stated ==
    BadDeparture =>
        /\ response.status = 400
        /\ response.detail = "Invalid departure_time format"
        /\ response.lookups = 0

\* The elevation term the claim gives altitude el under theta_E, as a
\* numerator over ElevScale: the primary ramp plus a tail of 0.35 fading
\* linearly over ten degrees, on the closed range [theta_E, theta_E + 10] or
\* on the open one.
ClaimedElevTerm(el, theta_E, closed) ==
    LET primary == Clamp(ElevScale - (el * ElevScale) \div theta_E, 0, ElevScale)
        in_tail == IF closed THEN theta_E <= el /\ el <= theta_E + 10
                   ELSE theta_E < el /\ el < theta_E + 10
        tail == IF in_tail THEN (35 * ElevScale * (10 - (el - theta_E))) \div 1000 ELSE 0
    IN  Clamp(primary + tail, 0, ElevScale)

\* Both scorers' elevation terms are the claimed ones at the altitude of the
\* call, for a sun above the horizon: as the functions compute them, and as
\* the results show them.
ElevTermAsClaimed(closed) ==
    (ScorerReturned /\ g_ret.elevation_deg > 0) =>
        LET el == g_ret.elevation_deg
        IN  /\ _elev_term(el) = ClaimedElevTerm(el, THETA_E, closed)
            /\ practical_elev_term(el) = ClaimedElevTerm(el, PRACTICAL_THETA_E, closed)
            /\ g_call.fn = "practical_glare_score" =>
                 g_ret.elevation_term = ClaimedElevTerm(el, PRACTICAL_THETA_E, closed)
            /\ g_call.fn = "glare_score" =>
                 g_ret.score = ClaimedElevTerm(el, THETA_E, closed)
                                 * _heading_term(g_ret.delta_heading_deg)

\* C16 as stated: the tail is 0.35 x (1 - (altitude - theta_E)/10) at every
\* altitude from theta_E, where it is 0.35, to theta_E + 10, where it is 0.
C16_TailFromThetaE_Stated == ElevTermAsClaimed(TRUE)

\* C16 amended: the tail is that for theta_E < altitude < theta_E + 10 only;
\* at exactly theta_E it is 0, so the elevation term there is 0, not 0.35.
C16_TailAboveThetaE == ElevTermAsClaimed(FALSE)

\* The sun at exactly THETA_E, dead ahead: no glare.  And one degree higher,
\* the tail alone.
C16_Witness ==
    /\ ScorerReturned /\ g_call.fn = "glare_score"
    /\ g_ret.elevation_deg = THETA_E /\ g_ret.delta_heading_deg = 0
    /\ g_ret.score = 0
    /\ _elev_term(THETA_E + 1) * 1000 = 35 * 9 * ElevScale

\* Both scorers on the sun and heading of the call that returned: the
\* practical score is at least the original one.  The scores are numerators
\* over ElevScale * theta_H^2 of their preset.
PracticalAtLeastOriginal ==
    ScoreAt("practical_glare_score", g_ret.azimuth_deg, g_ret.elevation_deg,
            g_call.heading_deg) * (THETA_H * THETA_H)
        >= ScoreAt("glare_score", g_ret.azimuth_deg, g_ret.elevation_deg,
                   g_call.heading_deg) * (PRACTICAL_THETA_H * PRACTICAL_THETA_H)

\* The score the call returned is the one ScoreAt gives for its scorer.
ReturnedIsScoreAt ==
    g_ret.score = ScoreAt(g_call.fn, g_ret.azimuth_deg, g_ret.elevation_deg,
                          g_call.heading_deg)

\* C17 as stated: for every solar azimuth, solar altitude and heading the
\* score of practical_glare_score is at least that of glare_score.
C17_PracticalAtLeastOriginal_Stated ==
    ScorerReturned => (ReturnedIsScoreAt /\ PracticalAtLeastOriginal)

\* C17 amended: so it is for every azimuth and heading at every altitude up
\* to THETA_E (15) and above PRACTICAL_THETA_E (20), and the practical
\* heading term is at least the original one at every angular difference;
\* for an altitude above 15 and up to 20 the original score can be the
\* higher one, and is whenever the sun is dead ahead.
C17_PracticalAtLeastOriginalOutsideGap ==
    ScorerReturned =>
        LET el == g_ret.elevation_deg
            delta == g_ret.delta_heading_deg
        IN  /\ ReturnedIsScoreAt
            /\ practical_heading_term(delta) * (THETA_H * THETA_H)
                 >= _heading_term(delta) * (PRACTICAL_THETA_H * PRACTICAL_THETA_H)
            /\ (el <= THETA_E \/ el > PRACTICAL_THETA_E) => PracticalAtLeastOriginal
            /\ (THETA_E < el /\ el <= PRACTICAL_THETA_E /\ delta = 0)
                 => ~PracticalAtLeastOriginal

\* A low sun ten degrees off the heading: the practical scorer returned the
\* higher score, and the original one is not 0.
C17_Witness ==
    /\ ScorerReturned /\ g_call.fn = "practical_glare_score"
    /\ g_ret.elevation_deg = 10 /\ g_ret.delta_heading_deg = 10
    /\ PracticalAtLeastOriginal
    /\ ScoreAt("glare_score", g_ret.azimuth_deg, g_ret.elevation_deg,
               g_call.heading_deg) > 0

\* The durations of the first j segments are whole ticks, and their sum in
\* ticks, segments without points included.
WholeTicksUpTo(j) == \A x \in 1..j : request.segments[x].duration % TickParts = 0
DurationUpTo(j) ==
    SumSeq([x \in 1..j |-> request.segments[x].duration \div TickParts])

\* C18 as stated: the sample with ratio r of segment j is stamped departure
\* + the durations of all segments before j, those without points included,
\* + r x duration_j; and if the last segment has points, the last glare
\* point is stamped statistics.arrival_time.  (Stated where the durations
\* before the sample are whole ticks, so that no rounding is in play.)
C18_TimestampsCountEverySegment_Stated ==
    Answered =>
        LET pts == response.glare_points
            segs == request.segments
            departure == response.statistics.departure_time.iso_wall
        IN  /\ \A k \in 1..Len(pts) :
                  LET t == response.trace[k]
                  IN  WholeTicksUpTo(t.segment - 1) =>
                          pts[k].timestamp.iso_wall
                            = departure + DurationUpTo(t.segment - 1)
                                + timedelta(t.i * segs[t.segment].duration,
                                            IF t.n > 1 THEN t.n - 1 ELSE 1)
            /\ (/\ segs # <<>> /\ Len(segs[Len(segs)].points) >= 1
                /\ WholeTicksUpTo(Len(segs)))
                 => pts[Len(pts)].timestamp = response.statistics.arrival_time

\* The whole seconds the run gives segment i, and the instant at which the
\* run enters it: the start plus the seconds of the segments before it.
SegmentSeconds(i) == Max(1, PyRound(sim_call.segment_minutes[i] * 60, MinuteParts))
SegmentEntered(i) ==
    sim_call.start_local.wall + SumSeq([x \in 1..(i - 1) |-> SegmentSeconds(x)])

\* The instants of the simulation's output increase strictly, and the
\* samples of segment i lie in [entered, entered + seconds).
SimInstantsOrdered ==
    LET times == sim_ret.times_local
    IN  /\ \A j \in 1..(Len(times) - 1) :
             /\ times[j].wall < times[j + 1].wall
             /\ times[j].tzinfo = times[j + 1].tzinfo
        /\ \A i \in 1..(Len(sim_call.route_points) - 1) :
             \A k \in 1..ClaimedSteps(FALSE, i) :
                LET w == times[ClaimedOffset(FALSE, i) + k].wall
                IN  SegmentEntered(i) <= w /\ w < SegmentEntered(i) + SegmentSeconds(i)

\* The timestamps of the endpoint's glare points never step back.
GlarePointsOrdered ==
    \A k \in 1..(Len(response.glare_points) - 1) :
        /\ response.glare_points[k].timestamp.iso_wall
             <= response.glare_points[k + 1].timestamp.iso_wall
        /\ response.glare_points[k].timestamp.iso_offset
             = response.glare_points[k + 1].timestamp.iso_offset

\* C19: with step_seconds >= 1 the simulation's instants are strictly
\* increasing and every sample of a segment lies in [segment start, segment
\* end); the timestamps of the endpoint's glare points are non-decreasing
\* over the whole sequence, across segment boundaries too.
C19_InstantsInRouteOrder ==
    /\ (SimReturned /\ sim_call.step_seconds >= 1) => SimInstantsOrdered
    /\ Answered => GlarePointsOrdered

\* Two segments of 7 s stepped by 3 s: samples at 0 and 3, at 7 and 10, and
\* the trailing one at 14.
C19_Witness ==
    /\ SimReturned /\ sim_call.step_seconds = 3
    /\ sim_call.segment_minutes = <<14, 14>>
    /\ sim_call.start_local.wall = 0
    /\ [j \in 1..Len(sim_ret.times_local) |-> sim_ret.times_local[j].wall]
         = <<0, 3, 7, 10, 14>>

\* The endpoint answered a request whose departure_time spells its own UTC
\* offset: a numeric one, or Z.
OffsetBearingAnswered ==
    /\ Answered /\ request.departure_time.valid
    /\ (request.departure_time.offset # None \/ request.departure_time.z)

\* The UTC offset the departure_time string itself carries.
OwnOffset(text) == IF text.offset # None THEN text.offset[1] ELSE 0

\* C20 as stated: an offset-bearing departure_time is analysed at the
\* instant it denotes, whatever the timezone field says: the departure the
\* endpoint works from is that instant in UTC.
C20_OffsetBearingInstantKept_Stated ==
    OffsetBearingAnswered =>
        response.statistics.departure_time.iso_wall
            - response.statistics.departure_time.iso_offset[1]
          = request.departure_time.wall - OwnOffset(request.departure_time)

(***************************************************************************)
(* SpecWindows: check_rate_limit over several windows.  The run starts     *)
(* after each client has made some calls in window 0 (none, 59 or 60 of    *)
(* them answered True), and the clock may skip windows.  `request.made`    *)
(* counts the calls of the run per client.                                 *)
(***************************************************************************)
MaxWindowCalls == 3     \* calls each client makes in the run

WindowReadings == {0, 59, 60, 130, 185, 250}
Windows == {t \div RATE_LIMIT_WINDOW : t \in WindowReadings}
EarlierCalls == {0, RATE_LIMIT_REQUESTS - 1, RATE_LIMIT_REQUESTS}

InitWindows ==
    /\ ephem = StillSun(0, 0)
    /\ g_call = Idle /\ g_ret = Idle /\ sim_call = Idle /\ sim_ret = Idle
    /\ request = [fn |-> "check_rate_limit", made |-> [c \in LimiterClients |-> 0]]
    /\ response = [exc |-> "idle", fn |-> "check_rate_limit", status |-> 0]
    /\ clock = 0
    /\ \E before \in [LimiterClients -> EarlierCalls] :
         /\ request_counts = [c \in {x \in LimiterClients : before[x] > 0} |->
                                (0 :> before[c])]
         /\ handled = [c \in LimiterClients |->
                         [w \in Windows |->
                            IF w = 0 THEN [calls |-> before[c], trues |-> before[c]]
                            ELSE [calls |-> 0, trues |-> 0]]]

CallInWindow ==
    \E c \in LimiterClients :
        /\ request.made[c] < MaxWindowCalls
        /\ request' = [request EXCEPT !.made[c] = @ + 1]
        /\ request_counts' = check_rate_limit(request_counts, c, clock).request_counts
        /\ response' = [exc |-> "none", fn |-> "check_rate_limit", status |-> 0,
                        client_ip |-> c, window |-> clock \div RATE_LIMIT_WINDOW,
                        nth |-> handled[c][clock \div RATE_LIMIT_WINDOW].calls + 1,
                        ret |-> check_rate_limit(request_counts, c, clock).ret]
        /\ handled' = Tallied(handled, c, clock \div RATE_LIMIT_WINDOW,
                              check_rate_limit(request_counts, c, clock).ret)
        /\ UNCHANGED <<ephem, g_call, g_ret, sim_call, sim_ret, clock>>

\* time.time() moves on, by less than a window or by more.
ClockAdvance ==
    /\ \E t \in WindowReadings : t > clock /\ clock' = t
    /\ UNCHANGED <<ephem, g_call, g_ret, sim_call, sim_ret, request, response,
                   request_counts, handled>>

NextWindows == CallInWindow \/ ClockAdvance

SpecWindows == InitWindows /\ [][NextWindows]_vars

\* The map of client c in counts (empty when c has none), and its count for
\* window w.
CountsOf(counts, c) == IF c \in DOMAIN counts THEN counts[c] ELSE EmptyMap
CountIn(counts, c, w) ==
    IF w \in DOMAIN CountsOf(counts, c) THEN CountsOf(counts, c)[w] ELSE 0

\* What one call of check_rate_limit, by response'.client_ip in window
\* response'.window, did to request_counts.
CallEffect ==
    LET c == response'.client_ip
        w == response'.window
    IN  /\ \A b \in LimiterClients \ {c} :
             /\ (b \in DOMAIN request_counts') = (b \in DOMAIN request_counts)
             /\ CountsOf(request_counts', b) = CountsOf(request_counts, b)
        /\ ~response'.ret =>
             CountIn(request_counts', c, w) = CountIn(request_counts, c, w)
        /\ response'.ret =>
             CountIn(request_counts', c, w) = CountIn(request_counts, c, w) + 1
        /\ \A x \in DOMAIN request_counts'[c] : w - 1 <= x /\ x <= w
        /\ (/\ response'.nth = 1 /\ w >= 1
            /\ handled[c][w - 1].calls > handled[c][w - 1].trues) => response'.ret

\* C21: a call for one client changes no other client's counters; a call
\* answered False leaves the caller's count for the current window as it
\* was; after a call the caller's map holds the current and the previous
\* window at most; and a client refused in window w is accepted on its
\* first call in window w + 1.
C21_ClientsAndWindowsIndependent == [][handled' # handled => CallEffect]_vars

\* The busy client, refused in window 0, has been accepted in window 1 and
\* then, two windows on, accepted again with only that window left in its
\* map, while the other client's window 0 is still as it was.
C21_Witness ==
    /\ response.exc = "none" /\ response.client_ip = Client
    /\ response.window = 3 /\ response.ret
    /\ handled[Client][0].calls > handled[Client][0].trues
    /\ handled[Client][1].trues = 1
    /\ DOMAIN request_counts[Client] = {3}
    /\ CountIn(request_counts, OtherClient, 0) = RATE_LIMIT_REQUESTS

\* C22: for a segment whose polyline has n >= 2 points, every sample has
\* polyline_index in [0, n - 2] and local_ratio in [0, 1]; p2 is the point
\* after p1 and the heading is the bearing of that leg, the last leg for the
\* final sample; the 'previous heading / 0.0' branch is never taken.
C22_PolylineIndexInRange ==
    Answered =>
        \A k \in 1..Len(response.glare_points) :
            LET t == response.trace[k]
                points == request.segments[t.segment].points
                last == Len(points)
            IN  last >= 2 =>
                  /\ 0 <= t.polyline_index /\ t.polyline_index <= last - 2
                  /\ 0 <= t.local_ratio.n /\ t.local_ratio.n <= t.local_ratio.d
                  /\ t.branch = "local"
                  /\ response.glare_points[k].heading
                       = calculate_heading(points[t.polyline_index + 1].lat,
                                           points[t.polyline_index + 1].lng,
                                           points[t.polyline_index + 2].lat,
                                           points[t.polyline_index + 2].lng)
                  /\ (t.i = t.n - 1 =>
                        /\ t.polyline_index = last - 2
                        /\ t.local_ratio.n = t.local_ratio.d
                        /\ response.glare_points[k].heading
                             = calculate_heading(points[last - 1].lat, points[last - 1].lng,
                                                 points[last].lat, points[last].lng))

\* The final sample of a segment with a four-point polyline: on its last
\* leg, at local_ratio 1, heading south.
C22_Witness ==
    /\ Answered
    /\ \E k \in 1..Len(response.trace) :
         LET t == response.trace[k]
         IN  /\ Len(request.segments[t.segment].points) = 4
             /\ t.i = t.n - 1 /\ t.polyline_index = 2
             /\ t.local_ratio.n = t.local_ratio.d /\ t.branch = "local"
             /\ response.glare_points[k].heading = 180

====
